---- MODULE Spec2Model ----
(***************************************************************************)
(* Model of youtill/parameters.py: the constraint evaluator                *)
(* check_constraints and the ParameterRegister built on it.                *)
(*                                                                         *)
(* Python strings are sequences of one-character strings, so startswith,   *)
(* split and float() are computed character by character.  Python floats   *)
(* are exact decimal fractions n/d (d a power of ten).                     *)
(***************************************************************************)
EXTENDS Integers, Sequences, FiniteSets, TLC

(***************************************************************************)
(* Bounds of the model.                                                    *)
(***************************************************************************)
\* number of register operations in one run
MaxCalls == 2
\* number of keyword arguments in one set() call
MaxKwargs == 2
\* number of members in a constraint collection
MaxMembers == 2

(***************************************************************************)
(* Python values: None, bool, int, float, str.                             *)
(***************************************************************************)
VNone == [t |-> "None", n |-> 0, d |-> 1, s |-> <<>>]
VBool(b) == [t |-> "bool", n |-> IF b THEN 1 ELSE 0, d |-> 1, s |-> <<>>]
VInt(i) == [t |-> "int", n |-> i, d |-> 1, s |-> <<>>]
VFloat(n, d) == [t |-> "float", n |-> n, d |-> d, s |-> <<>>]
VStr(s) == [t |-> "str", n |-> 0, d |-> 1, s |-> s]

\* Python truthiness, as used by "if not no_check"
Truthy(v) ==
    CASE v.t = "None" -> FALSE
      [] v.t = "str" -> v.s # <<>>
      [] OTHER -> v.n # 0

\* v is None
IsNone(v) == v.t = "None"

\* Python ==: numbers compare by value across bool/int/float, strings by
\* content, None only equals None
PyEq(a, b) ==
    CASE a.t = "None" \/ b.t = "None" -> a.t = b.t
      [] a.t = "str" \/ b.t = "str" -> a.t = b.t /\ a.s = b.s
      [] OTHER -> a.n * b.d = b.n * a.d

\* isinstance(v, ty) for the type tags str, int, float, collections.Iterable
IsInstance(v, ty) ==
    CASE ty = "str" -> v.t = "str"
      [] ty = "int" -> v.t \in {"int", "bool"}
      [] ty = "float" -> v.t = "float"
      [] ty = "Iterable" -> v.t = "str"
      [] OTHER -> FALSE

(***************************************************************************)
(* str.startswith, str.split and float().                                  *)
(***************************************************************************)
Digits == {"0", "1", "2", "3", "4", "5", "6", "7", "8", "9"}

DigitVal ==
    "0" :> 0 @@ "1" :> 1 @@ "2" :> 2 @@ "3" :> 3 @@ "4" :> 4 @@
    "5" :> 5 @@ "6" :> 6 @@ "7" :> 7 @@ "8" :> 8 @@ "9" :> 9

StartsWith(c, p) == Len(p) <= Len(c) /\ SubSeq(c, 1, Len(p)) = p

\* least index >= 1 at which sep occurs in c, 0 when it does not occur
Find(c, sep) ==
    LET hits == {i \in 1..Len(c) : i + Len(sep) - 1 <= Len(c)
                                   /\ SubSeq(c, i, i + Len(sep) - 1) = sep}
    IN IF hits = {} THEN 0 ELSE CHOOSE i \in hits : \A j \in hits : i <= j

\* the text of rest before the first occurrence of sep, all of it when
\* sep does not occur
Before(rest, sep) ==
    IF Find(rest, sep) = 0 THEN rest ELSE SubSeq(rest, 1, Find(rest, sep) - 1)

\* c.split(sep)[1]: the text between the first and the second occurrence
\* of sep (to the end when there is no second one); ok is FALSE for the
\* IndexError raised when sep does not occur
Split1(c, sep) ==
    IF Find(c, sep) = 0 THEN [ok |-> FALSE, s |-> <<>>]
    ELSE [ok |-> TRUE, s |-> Before(SubSeq(c, Find(c, sep) + Len(sep), Len(c)), sep)]

IsDigits(s) == \A i \in 1..Len(s) : s[i] \in Digits

RECURSIVE DigitsVal(_)
DigitsVal(s) ==
    IF s = <<>> THEN 0
    ELSE DigitsVal(SubSeq(s, 1, Len(s) - 1)) * 10 + DigitVal[s[Len(s)]]

RECURSIVE Pow10(_)
Pow10(k) == IF k = 0 THEN 1 ELSE 10 * Pow10(k - 1)

NotAFloat == [ok |-> FALSE, n |-> 0, d |-> 1]

\* the number with integer digits ip and fraction digits fp
Decimal(ip, fp) ==
    IF IsDigits(ip) /\ IsDigits(fp) /\ Len(ip) + Len(fp) > 0
    THEN [ok |-> TRUE, n |-> DigitsVal(ip) * Pow10(Len(fp)) + DigitsVal(fp),
          d |-> Pow10(Len(fp))]
    ELSE NotAFloat

\* body read as digits [. digits] or . digits, the dots of body given
Unsigned(body, dots) ==
    IF dots = {} THEN Decimal(body, <<>>)
    ELSE IF Cardinality(dots) > 1 THEN NotAFloat
    ELSE Decimal(SubSeq(body, 1, (CHOOSE i \in dots : TRUE) - 1),
                 SubSeq(body, (CHOOSE i \in dots : TRUE) + 1, Len(body)))

Negated(f) == [f EXCEPT !.n = 0 - f.n]

\* float(s) for a str over digits, '.', '-' and non-numeric characters:
\* [-] digits [. digits] or [-] . digits; ok is FALSE for ValueError
ParseFloat(s) ==
    IF Len(s) > 0 /\ s[1] = "-"
    THEN Negated(Unsigned(Tail(s), {i \in 1..Len(s) - 1 : s[i + 1] = "."}))
    ELSE Unsigned(s, {i \in 1..Len(s) : s[i] = "."})

\* float(item): numbers convert, strings are parsed, None is a TypeError
ToFloat(item) ==
    CASE item.t \in {"int", "bool", "float"} -> [ok |-> TRUE, n |-> item.n, d |-> item.d]
      [] item.t = "str" -> ParseFloat(item.s)
      [] OTHER -> NotAFloat

(***************************************************************************)
(* util.operations: the six comparison lambdas, in insertion order.        *)
(***************************************************************************)
operations == << <<"<", "=">>, <<">", "=">>, <<"=", "=">>, <<"!", "=">>, <<">">>, <<"<">> >>

\* operations[opstr](x, y) on floats x, y
ApplyOp(opstr, x, y) ==
    CASE opstr = <<"<", "=">> -> x.n * y.d <= y.n * x.d
      [] opstr = <<">", "=">> -> x.n * y.d >= y.n * x.d
      [] opstr = <<"=", "=">> -> x.n * y.d = y.n * x.d
      [] opstr = <<"!", "=">> -> x.n * y.d # y.n * x.d
      [] opstr = <<">">> -> x.n * y.d > y.n * x.d
      [] opstr = <<"<">> -> x.n * y.d < y.n * x.d

(***************************************************************************)
(* Constraint specs: None, a type tag, a string, a callable, a collection. *)
(***************************************************************************)
CNone == [k |-> "none", ty |-> "", s |-> <<>>, p |-> "", m |-> <<>>]
CType(ty) == [k |-> "type", ty |-> ty, s |-> <<>>, p |-> "", m |-> <<>>]
CStr(s) == [k |-> "str", ty |-> "", s |-> s, p |-> "", m |-> <<>>]
CPred(p) == [k |-> "pred", ty |-> "", s |-> <<>>, p |-> p, m |-> <<>>]
CColl(m) == [k |-> "coll", ty |-> "", s |-> <<>>, p |-> "", m |-> m]

\* the callables used as predicates: the doctest's lambda
\* (lambda x: True if x is None else isinstance(x, str)) and the same
\* function wrapped in functools.partial, which has no __name__
PredApply(p, item) == item.t \in {"None", "str"}

HasName(p) == p = "lambda"

\* outcome of a call: a returned bool or a raised exception
Ret(b) == [r |-> "ret", b |-> b, e |-> ""]
Raise(e) == [r |-> "raise", b |-> FALSE, e |-> e]

(***************************************************************************)
(* check_constraints and its helpers.  vb is the value of the module       *)
(* global VERBOSITY seen by the call.                                      *)
(***************************************************************************)
\* the operator test without the "not followed by '='" clause
_isop_prefix_only(c, opstr) == StartsWith(c, opstr)

\* c.startswith(opstr) and not c.split(opstr)[1].startswith('=')
_isop(c, opstr) ==
    StartsWith(c, opstr) /\ ~StartsWith(Split1(c, opstr).s, <<"=">>)

\* float() of a piece of a split
FloatOf(piece) == IF piece.ok THEN ParseFloat(piece.s) ELSE NotAFloat

\* float(c.split(opstr)[1]); ok is FALSE when the conversion raises
_getval(c, opstr) == FloatOf(Split1(c, opstr))

\* any([c.startswith(opstr) for opstr in operations.keys()])
numeric(c) == \E i \in DOMAIN operations : StartsWith(c, operations[i])

\* the operators of util.operations for which _isop(c, opstr) holds
Firing(c) == {i \in DOMAIN operations : _isop(c, operations[i])}

\* the list correct_or_dontcare and all() of it; building the list raises
\* ValueError when _getval cannot convert the text after a firing operator
correct_or_dontcare(f, c) ==
    IF \E i \in Firing(c) : ~_getval(c, operations[i]).ok
    THEN Raise("ValueError")
    ELSE Ret(\A i \in DOMAIN operations :
                 IF _isop(c, operations[i])
                 THEN ApplyOp(operations[i], f, _getval(c, operations[i]))
                 ELSE TRUE)

\* the final else branch: under VERBOSITY > 0 the trace line reads
\* c.__name__ and calls c(item) before the call whose result is returned
predicate_branch(item, c, vb) ==
    IF vb > 0 /\ ~(c.k = "pred" /\ HasName(c.p)) THEN Raise("AttributeError")
    ELSE IF c.k = "pred" THEN Ret(PredApply(c.p, item))
    ELSE Raise("TypeError")

\* the try/except/else around item = float(item): f is float(item)
numeric_branch(f, c) ==
    IF ~f.ok THEN Ret(FALSE) ELSE correct_or_dontcare(f, c)

_check_constraint(item, c, vb) ==
    CASE c.k = "none" -> Ret(TRUE)
      [] c.k = "type" -> Ret(IsInstance(item, c.ty))
      [] c.k = "str" ->
           IF numeric(c.s) THEN numeric_branch(ToFloat(item), c.s)
           ELSE Ret(PyEq(item, VStr(c.s)))
      [] OTHER -> predicate_branch(item, c, vb)

\* isinstance(item, collections.Iterable) for a constraint: strings and
\* collections are iterable, None, type tags and functions are not
isiterable(c) == c.k \in {"str", "coll"}

\* what "for c in constraint" yields: the members of a collection, the
\* one-character strings of a string
Members(c) ==
    IF c.k = "str" THEN [i \in 1..Len(c.s) |-> CStr(<<c.s[i]>>)] ELSE c.m

(***************************************************************************)
(* dict and OrderedDict: sequences of <<key, value>> in insertion order.   *)
(***************************************************************************)
Keys(dct) == {dct[i][1] : i \in DOMAIN dct}

Has(dct, key) == key \in Keys(dct)

Index(dct, key) == CHOOSE i \in DOMAIN dct : dct[i][1] = key

Lookup(dct, key) == dct[Index(dct, key)][2]

\* dct[key] = val: in place for an existing key, appended for a new one
Put(dct, key, val) ==
    IF Has(dct, key)
    THEN [dct EXCEPT ![Index(dct, key)] = <<key, val>>]
    ELSE Append(dct, <<key, val>>)

\* dct.update(other), pair by pair in other's order
RECURSIVE Update(_, _)
Update(dct, other) ==
    IF other = <<>> THEN dct
    ELSE Update(Put(dct, other[1][1], other[1][2]), Tail(other))

\* constraints.get(param_name): the spec, None for a missing key
GetConstraint(cmap, name) == IF Has(cmap, name) THEN Lookup(cmap, name) ELSE CNone

\* self.get(key): the value, None for a missing key
GetValue(dct, key) == IF Has(dct, key) THEN Lookup(dct, key) ELSE VNone

\* all(outs) or any(outs) for the list outs of member results; the list
\* comprehension raises what the first raising member raises
AllOrAny(outs, check_all) ==
    LET raised == {i \in DOMAIN outs : outs[i].r = "raise"}
    IN IF raised # {}
       THEN outs[CHOOSE i \in raised : \A j \in raised : i <= j]
       ELSE IF check_all THEN Ret(\A i \in DOMAIN outs : outs[i].b)
            ELSE Ret(\E i \in DOMAIN outs : outs[i].b)

\* [_check_constraint(param_value, c, param_name) for c in constraint]
\* under all() or any()
Combine(item, ms, vb, check_all) ==
    AllOrAny([i \in DOMAIN ms |-> _check_constraint(item, ms[i], vb)], check_all)

\* check_constraints with all and any exchanged
check_constraints_swapped(param_value, param_name, constraints, check_all, vb) ==
    LET constraint == GetConstraint(constraints, param_name)
    IN IF isiterable(constraint)
       THEN Combine(param_value, Members(constraint), vb, ~check_all)
       ELSE _check_constraint(param_value, constraint, vb)

check_constraints(param_value, param_name, constraints, check_all, vb) ==
    LET constraint == GetConstraint(constraints, param_name)
    IN IF isiterable(constraint)
       THEN Combine(param_value, Members(constraint), vb, check_all)
       ELSE _check_constraint(param_value, constraint, vb)

(***************************************************************************)
(* State.                                                                  *)
(***************************************************************************)
VARIABLES
    VERBOSITY,    \* the module global of util.py
    reg,          \* the ParameterRegister itself: the OrderedDict of values
    constraints,  \* self.constraints: [none |-> it is None, d |-> the dict]
    defaults,     \* self.defaults: [none |-> it is None, d |-> the dict]
    last,         \* the last register call: arguments, outcome, prior values
    assigned,     \* per key of reg: how and under which constraints it was written
    bypassed,     \* some set() call so far passed a true no_check
    calls,        \* register calls made so far
    ev,           \* arguments of a direct check_constraints call
    evOut,        \* its outcome
    evPc          \* "input" before the call, "done" after it, "off" when unused

vars == <<VERBOSITY, reg, constraints, defaults, last, assigned, bypassed, calls, ev, evOut, evPc>>

regVars == <<reg, constraints, defaults, last, assigned, bypassed, calls>>

evVars == <<ev, evOut, evPc>>

NoDict == [none |-> TRUE, d |-> <<>>]
Dict(d) == [none |-> FALSE, d |-> d]

NoCall == [op |-> "none", kwargs |-> <<>>, arg |-> NoDict, out |-> Ret(TRUE),
           site |-> "", msg |-> <<>>, evaluated |-> <<>>, pre |-> <<>>]

\* the sequences over S of length at most n
RECURSIVE SeqsUpTo(_, _)
SeqsUpTo(S, n) ==
    IF n = 0 THEN {<<>>}
    ELSE LET shorter == SeqsUpTo(S, n - 1)
         IN shorter \cup {Append(q, x) : q \in {r \in shorter : Len(r) = n - 1}, x \in S}

(***************************************************************************)
(* ParameterRegister.  Each method is an operator from the object's fields *)
(* and the arguments to the fields after the call and the call's outcome.  *)
(***************************************************************************)
\* the first n entries of the dict comprehension and what it ends with
Gathered(kwargs, outs, n) ==
    [out |-> IF n > 0 /\ outs[n].r = "raise" THEN outs[n] ELSE Ret(TRUE),
     is_good |-> [i \in 1..n |-> <<kwargs[i][1], outs[i].b>>],
     evaluated |-> [i \in 1..n |-> kwargs[i][1]]]

\* the least index in stops, Len(outs) when there is none
FirstOf(outs, stops) ==
    IF stops = {} THEN Len(outs) ELSE CHOOSE i \in stops : \A j \in stops : i <= j

\* check_constraints(v, k, self.constraints) for the i-th pair; a None
\* self.constraints has no get
CheckPair(cmap, kwargs, vb, i) ==
    IF cmap.none THEN Raise("AttributeError")
    ELSE check_constraints(kwargs[i][2], kwargs[i][1], cmap.d, TRUE, vb)

\* the comprehension stopped at the first pair that raises
UntilRaise(kwargs, outs) ==
    Gathered(kwargs, outs, FirstOf(outs, {i \in DOMAIN outs : outs[i].r = "raise"}))

\* the comprehension stopped at the first pair that raises or is bad
UntilBad(kwargs, outs) ==
    Gathered(kwargs, outs, FirstOf(outs, {i \in DOMAIN outs : outs[i] # Ret(TRUE)}))

\* check_kwargs that stops at the first parameter found bad
check_kwargs_short_circuit(cmap, kwargs, vb) ==
    UntilBad(kwargs, [i \in DOMAIN kwargs |-> CheckPair(cmap, kwargs, vb, i)])

\* {k: check_constraints(v, k, self.constraints) for k, v in kwargs.items()}:
\* every pair is evaluated in order unless an evaluation raises
check_kwargs(cmap, kwargs, vb) ==
    UntilRaise(kwargs, [i \in DOMAIN kwargs |-> CheckPair(cmap, kwargs, vb, i)])

\* the subsequence of q at the indices in keep, from index i on
RECURSIVE SelectIdx(_, _, _)
SelectIdx(q, keep, i) ==
    IF i > Len(q) THEN <<>>
    ELSE (IF i \in keep THEN <<q[i]>> ELSE <<>>) \o SelectIdx(q, keep, i + 1)

\* _err_fmt(key, kwargs): the name, self.constraints[key] and the value given
_err_fmt(cmap, key, kwargs) == <<key, Lookup(cmap.d, key), Lookup(kwargs, key)>>

\* the list of _err_fmt(kwarg, kwargs) over the pairs of is_good that are bad
bad_kwargs(cmap, is_good, kwargs) ==
    LET bad == SelectIdx(is_good, {i \in DOMAIN is_good : ~is_good[i][2]}, 1)
    IN [i \in DOMAIN bad |-> _err_fmt(cmap, bad[i][1], kwargs)]

\* what a call of set() leaves: the mapping, the outcome, where an
\* exception was raised, the error's entries, the parameters evaluated
Left(self, out, site, msg, evaluated) ==
    [reg |-> self, out |-> out, site |-> site, msg |-> msg, evaluated |-> evaluated]

\* set() from the result ck of check_kwargs on: raise ValueError listing the
\* bad ones, else self[k] = v for every pair.  An exception that escaped
\* check_constraints has left set() already (site "check_constraints")
validated(self, cmap, kwargs, ck) ==
    IF ck.out.r = "raise"
    THEN Left(self, ck.out, "check_constraints", <<>>, ck.evaluated)
    ELSE IF \E i \in DOMAIN ck.is_good : ~ck.is_good[i][2]
    THEN Left(self, Raise("ValueError"), "set",
              bad_kwargs(cmap, ck.is_good, kwargs), ck.evaluated)
    ELSE Left(Update(self, kwargs), Ret(TRUE), "", <<>>, ck.evaluated)

\* the same with the good values written before the raise
validated_writes_good_first(self, cmap, kwargs, ck) ==
    IF ck.out.r = "raise"
    THEN Left(self, ck.out, "check_constraints", <<>>, ck.evaluated)
    ELSE IF \E i \in DOMAIN ck.is_good : ~ck.is_good[i][2]
    THEN Left(Update(self, SelectIdx(kwargs, {i \in DOMAIN ck.is_good : ck.is_good[i][2]}, 1)),
              Raise("ValueError"), "set",
              bad_kwargs(cmap, ck.is_good, kwargs), ck.evaluated)
    ELSE Left(Update(self, kwargs), Ret(TRUE), "", <<>>, ck.evaluated)

\* the same without the raise
validated_never_raises(self, cmap, kwargs, ck) ==
    IF ck.out.r = "raise"
    THEN Left(self, ck.out, "check_constraints", <<>>, ck.evaluated)
    ELSE Left(Update(self, kwargs), Ret(TRUE), "", <<>>, ck.evaluated)

\* set() that writes the good values before it raises
set_writes_good_first(self, cmap, kwargs, vb) ==
    IF Truthy(GetValue(kwargs, "no_check"))
    THEN Left(Update(self, kwargs), Ret(TRUE), "", <<>>, <<>>)
    ELSE validated_writes_good_first(self, cmap, kwargs, check_kwargs(cmap, kwargs, vb))

\* set() that never raises the validation error
set_never_raises(self, cmap, kwargs, vb) ==
    IF Truthy(GetValue(kwargs, "no_check"))
    THEN Left(Update(self, kwargs), Ret(TRUE), "", <<>>, <<>>)
    ELSE validated_never_raises(self, cmap, kwargs, check_kwargs(cmap, kwargs, vb))

\* set() that validates whatever no_check is
set_ignores_no_check(self, cmap, kwargs, vb) ==
    validated(self, cmap, kwargs, check_kwargs(cmap, kwargs, vb))

\* kwargs without the pair of key
Without(kwargs, key) ==
    SelectIdx(kwargs, {i \in DOMAIN kwargs : kwargs[i][1] # key}, 1)

\* set() that takes no_check out of kwargs before it validates and assigns
set_pops_no_check(self, cmap, kwargs, vb) ==
    IF Truthy(GetValue(kwargs, "no_check"))
    THEN Left(Update(self, Without(kwargs, "no_check")), Ret(TRUE), "", <<>>, <<>>)
    ELSE validated(self, cmap, Without(kwargs, "no_check"),
                   check_kwargs(cmap, Without(kwargs, "no_check"), vb))

\* set(**kwargs): unless kwargs.get('no_check') is true, check_kwargs and
\* raise ValueError listing the bad ones; then self[k] = v for every pair
set(self, cmap, kwargs, vb) ==
    IF Truthy(GetValue(kwargs, "no_check"))
    THEN Left(Update(self, kwargs), Ret(TRUE), "", <<>>, <<>>)
    ELSE validated(self, cmap, kwargs, check_kwargs(cmap, kwargs, vb))

\* the characters of the parameter names
KeyChars ==
    "x" :> <<"x">> @@ "y" :> <<"y">> @@
    "no_check" :> <<"n", "o", "_", "c", "h", "e", "c", "k">>

DigitChar == <<"0", "1", "2", "3", "4", "5", "6", "7", "8", "9">>

\* str(n) for an int n >= 0
RECURSIVE NatChars(_)
NatChars(n) ==
    IF n < 10 THEN <<DigitChar[n + 1]>>
    ELSE NatChars(n \div 10) \o <<DigitChar[(n % 10) + 1]>>

\* str(n) for an int n
IntChars(n) == IF n < 0 THEN <<"-">> \o NatChars(0 - n) ELSE NatChars(n)

\* '{}'.format(v): None, True/False, the digits of an int, the text of a
\* str, and a float with its fraction (floats here have at most one
\* fraction digit)
Format(v) ==
    CASE v.t = "None" -> <<"N", "o", "n", "e">>
      [] v.t = "bool" -> IF v.n # 0 THEN <<"T", "r", "u", "e">>
                         ELSE <<"F", "a", "l", "s", "e">>
      [] v.t = "int" -> IntChars(v.n)
      [] v.t = "str" -> v.s
      [] OTHER -> IF v.n < 0
                  THEN <<"-">> \o NatChars((0 - v.n) \div v.d) \o <<".">>
                       \o NatChars((0 - v.n) % v.d)
                  ELSE NatChars(v.n \div v.d) \o <<".">> \o NatChars(v.n % v.d)

\* '{}:{}'.format(k, v)
Entry(k, v) == KeyChars[k] \o <<":">> \o Format(v)

\* ','.join(['{}:{}'.format(k, v) for k, v in self.items()])
RECURSIVE hashable_str(_)
hashable_str(self) ==
    IF self = <<>> THEN <<>>
    ELSE IF Len(self) = 1 THEN Entry(self[1][1], self[1][2])
    ELSE Entry(self[1][1], self[1][2]) \o <<",">> \o hashable_str(Tail(self))

\* the pairs of dflt whose key is absent from self or holds None
defaults_notset(self, dflt) ==
    SelectIdx(dflt, {i \in DOMAIN dflt : IsNone(GetValue(self, dflt[i][1]))}, 1)

\* set_uninitialized_params() that writes every default
set_uninitialized_params_overwrites(self, dflts, arg) ==
    IF ~arg.none THEN [reg |-> Update(self, arg.d), out |-> Ret(TRUE)]
    ELSE IF ~dflts.none THEN [reg |-> Update(self, dflts.d), out |-> Ret(TRUE)]
    ELSE [reg |-> self, out |-> Raise("UnboundLocalError")]

\* set_uninitialized_params(defaults=arg): with neither arg nor
\* self.defaults the else branch prints and binds nothing, and
\* self.update(**defaults_notset) reads the unbound local
set_uninitialized_params(self, dflts, arg) ==
    IF ~arg.none
    THEN [reg |-> Update(self, defaults_notset(self, arg.d)), out |-> Ret(TRUE)]
    ELSE IF ~dflts.none
    THEN [reg |-> Update(self, defaults_notset(self, dflts.d)), out |-> Ret(TRUE)]
    ELSE [reg |-> self, out |-> Raise("UnboundLocalError")]

\* register(kwarg_name, constraints, default): two item assignments, each
\* a TypeError on None; the first has happened when the second raises
register(cmap, dflts, kwarg_name, c, default) ==
    IF cmap.none
    THEN [constraints |-> cmap, defaults |-> dflts, out |-> Raise("TypeError")]
    ELSE IF dflts.none
    THEN [constraints |-> Dict(Put(cmap.d, kwarg_name, c)), defaults |-> dflts,
          out |-> Raise("TypeError")]
    ELSE [constraints |-> Dict(Put(cmap.d, kwarg_name, c)),
          defaults |-> Dict(Put(dflts.d, kwarg_name, default)), out |-> Ret(TRUE)]

(***************************************************************************)
(* Inputs of the register calls.                                           *)
(***************************************************************************)
GeOne == CColl(<< CStr(<<">", "=", "1">>) >>)
LeOneBare == CStr(<<"<", "=", "1">>)

Names == {"x", "y"}

\* values passed to set()
SetValues == {VNone, VInt(0), VInt(5)}

\* (name, constraints, default) passed to register(); None is the default
\* of both keyword parameters
RegisterInputs ==
    {<<"x", CNone, VNone>>, <<"x", CType("int"), VNone>>,
     <<"y", GeOne, VInt(0)>>, <<"y", LeOneBare, VInt(0)>>,
     <<"no_check", CType("str"), VBool(FALSE)>>}

\* defaults passed to set_uninitialized_params(): none, or a dict
TenTwenty == << <<"x", VInt(10)>>, <<"y", VInt(20)>> >>
SupArgs ==
    {NoDict, Dict(TenTwenty), Dict(<< <<"x", VInt(0)>> >>),
     Dict(<< <<"no_check", VInt(5)>>, <<"y", VInt(20)>> >>)}

\* (constraints, defaults) passed to the constructor; None is its default
CtorArgs ==
    {<<NoDict, NoDict>>, <<Dict(<<>>), Dict(<<>>)>>,
     <<Dict(<< <<"x", GeOne>>, <<"y", CType("int")>> >>), Dict(TenTwenty)>>,
     <<Dict(<< <<"x", GeOne>>, <<"y", CType("int")>> >>), NoDict>>}

KwPairs ==
    {<<k, v>> : k \in Names, v \in SetValues}
    \cup {<<"no_check", VBool(b)>> : b \in BOOLEAN}

\* the order in which the call sites write their keywords
KwOrder == "x" :> 1 @@ "y" :> 2 @@ "no_check" :> 3

\* keyword arguments: at most MaxKwargs pairs with distinct names
KwargsInputs ==
    {kw \in SeqsUpTo(KwPairs, MaxKwargs) :
        \A i, j \in DOMAIN kw : i < j => KwOrder[kw[i][1]] < KwOrder[kw[j][1]]}

(***************************************************************************)
(* The register as a state machine: the constructor, then calls.  Each     *)
(* action makes one call; res is what the call returns and leaves behind.  *)
(***************************************************************************)
Init ==
    /\ VERBOSITY = 0
    /\ reg = <<>>
    /\ \E a \in CtorArgs : constraints = a[1] /\ defaults = a[2]
    /\ last = NoCall
    /\ assigned = <<>>
    /\ bypassed = FALSE
    /\ calls = 0
    /\ ev = [value |-> VNone, cmap |-> <<>>, check_all |-> TRUE]
    /\ evOut = Ret(TRUE)
    /\ evPc = "off"

\* record, for the keys a returning call wrote, who wrote them and the
\* constraint the key had then
RECURSIVE Mark(_, _, _, _)
Mark(hist, keys, by, cmap) ==
    IF keys = <<>> THEN hist
    ELSE Mark(Put(hist, keys[1], [by |-> by, c |-> GetConstraint(cmap.d, keys[1])]),
              Tail(keys), by, cmap)

KeySeq(dct) == [i \in DOMAIN dct |-> dct[i][1]]

Set ==
    /\ calls < MaxCalls
    /\ \E kwargs \in KwargsInputs :
        \E res \in {set(reg, constraints, kwargs, VERBOSITY)} :
        LET nc == Truthy(GetValue(kwargs, "no_check"))
        IN /\ calls' = calls + 1
           /\ reg' = res.reg
           /\ last' = [op |-> "set", kwargs |-> kwargs, arg |-> NoDict, out |-> res.out,
                       site |-> res.site, msg |-> res.msg,
                       evaluated |-> res.evaluated, pre |-> reg]
           /\ assigned' = IF res.out.r = "ret"
                          THEN Mark(assigned, KeySeq(kwargs),
                                    IF nc THEN "no_check" ELSE "set", constraints)
                          ELSE assigned
           /\ bypassed' = (bypassed \/ nc)
           /\ UNCHANGED <<VERBOSITY, constraints, defaults, evVars>>

SetUninitializedParams ==
    /\ calls < MaxCalls
    /\ \E arg \in SupArgs :
        \E res \in {set_uninitialized_params(reg, defaults, arg)} :
        LET eff == IF ~arg.none THEN arg.d ELSE defaults.d
        IN /\ calls' = calls + 1
           /\ reg' = res.reg
           /\ last' = [op |-> "set_uninitialized_params", kwargs |-> <<>>, arg |-> arg,
                       out |-> res.out, site |-> "", msg |-> <<>>,
                       evaluated |-> <<>>, pre |-> reg]
           /\ assigned' = IF res.out.r = "ret"
                          THEN Mark(assigned, KeySeq(defaults_notset(reg, eff)),
                                    "default", constraints)
                          ELSE assigned
           /\ UNCHANGED <<VERBOSITY, constraints, defaults, bypassed, evVars>>

Register ==
    /\ calls < MaxCalls
    /\ \E a \in RegisterInputs :
        \E res \in {register(constraints, defaults, a[1], a[2], a[3])} :
           /\ calls' = calls + 1
           /\ constraints' = res.constraints
           /\ defaults' = res.defaults
           /\ last' = [op |-> "register", kwargs |-> <<>>, arg |-> NoDict,
                       out |-> res.out, site |-> "", msg |-> <<>>,
                       evaluated |-> <<>>, pre |-> reg]
           /\ UNCHANGED <<VERBOSITY, reg, assigned, bypassed, evVars>>

Next == Register \/ Set \/ SetUninitializedParams

Spec == Init /\ [][Next]_vars

(***************************************************************************)
(* Direct calls of check_constraints(value, 'n', {'n': spec}, check_all).  *)
(***************************************************************************)
Str1 == <<"1">>
Str5 == <<"5">>
Str1p5 == <<"1", ".", "5">>
StrX == <<"x">>
StrAbc == <<"a", "b", "c">>

\* numeric literals of comparison strings
Literals == {Str1, Str5}

\* the comparison string of operator i and literal lit, e.g. ">=1"
Cmp(i, lit) == CStr(operations[i] \o lit)

CmpSpecs == {Cmp(i, lit) : i \in DOMAIN operations, lit \in Literals}

\* specs that occur as members of a collection
MemberSpecs ==
    CmpSpecs \cup {CStr(StrAbc), CNone, CPred("lambda"), CPred("partial")}

\* specs stored in the constraint map: bare specs and collections of specs
EvalSpecs ==
    {CNone, CType("str"), CType("Iterable"), CPred("lambda"), CPred("partial"),
     CType("int"), CStr(<<"<", "=", "1">>), CStr(<<">", "5">>),
     CColl(<<Cmp(1, Str1p5)>>), CColl(<<CType("int"), Cmp(3, Str1p5)>>), CStr(StrAbc), CStr(<<"a">>), CStr(<<>>)}
    \cup {CColl(m) : m \in SeqsUpTo(MemberSpecs, MaxMembers)}

EvalValues ==
    {VNone, VInt(0), VInt(1), VInt(4), VInt(5), VFloat(10, 10), VFloat(15, 10),
     VStr(StrX), VStr(StrAbc)}

InitEval ==
    /\ VERBOSITY \in {0, 1}
    /\ reg = <<>> /\ constraints = NoDict /\ defaults = NoDict
    /\ last = NoCall /\ assigned = <<>> /\ bypassed = FALSE /\ calls = 0
    /\ ev \in [value : EvalValues,
               cmap : {<<>>} \cup {<< <<"n", c>> >> : c \in EvalSpecs},
               check_all : BOOLEAN]
    /\ evOut = Ret(TRUE)
    /\ evPc = "input"

\* one call check_constraints(ev.value, 'n', ev.cmap, ev.check_all)
CheckConstraintsCall ==
    /\ evPc = "input"
    /\ evOut' = check_constraints(ev.value, "n", ev.cmap, ev.check_all, VERBOSITY)
    /\ evPc' = "done"
    /\ UNCHANGED <<VERBOSITY, ev, regVars>>

NextEval == CheckConstraintsCall

SpecEval == InitEval /\ [][NextEval]_vars

\* the spec stored under 'n'
EvSpec == GetConstraint(ev.cmap, "n")

\* the comparison the string op+lit denotes, on a value that float() accepts
Denotes(i, lit, value) == ApplyOp(operations[i], ToFloat(value), ParseFloat(lit))

\* every member of the collection under 'n' evaluates to a bool
MembersReturn ==
    \A i \in DOMAIN EvSpec.m : _check_constraint(ev.value, EvSpec.m[i], VERBOSITY).r = "ret"

MemberResult(i) == _check_constraint(ev.value, EvSpec.m[i], VERBOSITY).b

GeOneLtFive == CColl(<<Cmp(2, Str1), Cmp(6, Str5)>>)

\* C6: a string stored bare in the constraint map is evaluated as one whole
\* spec: a comparison string op+literal gives true iff the value converts to
\* float and satisfies the comparison (false, never an exception, when it
\* does not convert), and a literal string gives true iff value == string.
C6_BareStringIsOneSpec ==
    (evPc = "done" /\ EvSpec.k = "str") =>
        /\ \A i \in DOMAIN operations : \A lit \in Literals :
               EvSpec = Cmp(i, lit) =>
                   evOut = Ret(ToFloat(ev.value).ok /\ Denotes(i, lit, ev.value))
        /\ ~numeric(EvSpec.s) => evOut = Ret(ev.value = VStr(EvSpec.s))

\* C7: a collection gives the AND of its members' results under check_all
\* and the OR otherwise; the empty collection gives true under AND and false
\* under OR; (">=1", "<5") under ALL accepts 1 and 4 and rejects 0 and 5.
C7_CollectionAllAny ==
    (evPc = "done" /\ EvSpec.k = "coll" /\ MembersReturn) =>
        /\ evOut.r = "ret"
        /\ ev.check_all => (evOut.b <=> \A i \in DOMAIN EvSpec.m : MemberResult(i))
        /\ ~ev.check_all => (evOut.b <=> \E i \in DOMAIN EvSpec.m : MemberResult(i))
        /\ EvSpec.m = <<>> => (evOut.b <=> ev.check_all)
        /\ (EvSpec = GeOneLtFive /\ ev.check_all /\ ev.value.t = "int") =>
               (evOut.b <=> ev.value.n \in {1, 4})

\* C7 witness: (">=1", "<5") under ALL has rejected 5, whose first member
\* alone accepts it
C7_Witness ==
    /\ evPc = "done" /\ EvSpec = GeOneLtFive /\ ev.check_all
    /\ ev.value = VInt(5) /\ evOut = Ret(FALSE)
    /\ MemberResult(1) /\ ~MemberResult(2)

\* C9: a call made with VERBOSITY > 0 has the outcome of the same call made
\* with VERBOSITY = 0: where the quiet call returns, the verbose call returns
\* the same bool.
C9_VerbosityNeverAffectsResult ==
    evPc = "done" =>
        LET quiet == check_constraints(ev.value, "n", ev.cmap, ev.check_all, 0)
        IN quiet.r = "ret" => evOut = quiet

\* C10: in a comparison string op+literal exactly one operator fires, the one
\* the string was formed with, and the evaluation of the string on a value
\* that converts to float is that operator applied to (float(value), literal).
C10_OperatorDisambiguation ==
    \A i \in DOMAIN operations : \A lit \in Literals :
        (evPc = "done" /\ EvSpec = CColl(<<Cmp(i, lit)>>)) =>
            /\ Firing(Cmp(i, lit).s) = {i}
            /\ ToFloat(ev.value).ok => evOut = Ret(Denotes(i, lit, ev.value))
            /\ ~ToFloat(ev.value).ok => evOut = Ret(FALSE)

\* C10 witness: (">=1",) has accepted 1, which ">" applied to (1, 1) rejects
C10_Witness ==
    /\ evPc = "done" /\ EvSpec = CColl(<<Cmp(2, Str1)>>)
    /\ ev.value = VInt(1) /\ evOut = Ret(TRUE)
    /\ ~ApplyOp(operations[5], ToFloat(ev.value), ParseFloat(Str1))

(***************************************************************************)
(* Properties of the register.                                             *)
(***************************************************************************)
\* check_constraints(value, key, self.constraints) is the bool b
Checks(key, value, b) ==
    /\ ~constraints.none
    /\ check_constraints(value, key, constraints.d, TRUE, VERBOSITY) = Ret(b)

\* the last call was set() with no true no_check
CheckedSet == last.op = "set" /\ ~Truthy(GetValue(last.kwargs, "no_check"))

\* the indices of the last call's kwargs whose value fails its constraint
Failing == {i \in DOMAIN last.kwargs : Checks(last.kwargs[i][1], last.kwargs[i][2], FALSE)}

\* C1: a set() call without no_check in which a supplied value fails its
\* constraint raises and leaves the value mapping (keys, values, order) as
\* it was before the call.
C1_SetIsAtomic ==
    (CheckedSet /\ Failing # {}) => (last.out.r = "raise" /\ reg = last.pre)

\* C1 witness: set(x=5, y=None) on a register holding x=0 fails on y only,
\* has raised and x is still 0
C1_Witness ==
    /\ CheckedSet /\ last.out.r = "raise"
    /\ last.kwargs = << <<"x", VInt(5)>>, <<"y", VNone>> >>
    /\ Checks("x", VInt(5), TRUE) /\ Checks("y", VNone, FALSE)
    /\ reg = << <<"x", VInt(0)>> >>

\* C2: the validation error of set() lists exactly the supplied parameters
\* whose check is false, each with its constraint and the value given, and
\* every supplied parameter was evaluated before it was raised.
C2_ErrorListsAllFailures ==
    (last.op = "set" /\ last.out.r = "raise" /\ last.site = "set") =>
        /\ last.msg = [i \in 1..Len(last.msg) |->
                          <<last.msg[i][1], Lookup(constraints.d, last.msg[i][1]),
                            Lookup(last.kwargs, last.msg[i][1])>>]
        /\ last.msg = SelectIdx([i \in DOMAIN last.kwargs |->
                                    <<last.kwargs[i][1],
                                      GetConstraint(constraints.d, last.kwargs[i][1]),
                                      last.kwargs[i][2]>>], Failing, 1)
        /\ Failing # {}
        /\ last.evaluated = KeySeq(last.kwargs)

\* C2 witness: set(x=0, y=None) has raised naming both x and y
C2_Witness ==
    /\ last.op = "set" /\ last.out.r = "raise" /\ last.site = "set"
    /\ last.kwargs = << <<"x", VInt(0)>>, <<"y", VNone>> >>
    /\ Len(last.msg) = 2

\* value satisfied check_constraints under the constraint c of its key
Satisfied(value, c) ==
    check_constraints(value, "k", << <<"k", c>> >>, TRUE, VERBOSITY) = Ret(TRUE)

\* C3: if no set() call passed no_check, every key of the value mapping
\* holds a value that satisfied check_constraints under the constraint its
\* key had when the value was assigned.
C3_EveryValueWasAccepted ==
    ~bypassed =>
        \A i \in DOMAIN reg :
            /\ Has(assigned, reg[i][1])
            /\ Satisfied(reg[i][2], Lookup(assigned, reg[i][1]).c)

\* C3 as amended: the same for the keys whose value was written by set();
\* a value back-filled by set_uninitialized_params is a default that no
\* constraint was evaluated on.
C3_EverySetValueWasAccepted ==
    ~bypassed =>
        \A i \in DOMAIN reg :
            /\ Has(assigned, reg[i][1])
            /\ Lookup(assigned, reg[i][1]).by \in {"set", "default"}
            /\ Lookup(assigned, reg[i][1]).by = "set" =>
                   Satisfied(reg[i][2], Lookup(assigned, reg[i][1]).c)

\* C3 witness: x was written by set() under (">=1",) and y was back-filled
C3_Witness ==
    /\ ~bypassed
    /\ Has(assigned, "x") /\ Lookup(assigned, "x") = [by |-> "set", c |-> GeOne]
    /\ Has(assigned, "y") /\ Lookup(assigned, "y").by = "default"
    /\ Has(reg, "x") /\ Has(reg, "y")

\* the last call was set_uninitialized_params() with no argument on a
\* register whose defaults are None
SupWithoutDefaults ==
    last.op = "set_uninitialized_params" /\ last.arg.none /\ defaults.none

\* C4: set_uninitialized_params() with no argument and no self.defaults
\* returns normally and leaves the value mapping unchanged.
C4_NoDefaultsIsNoOp ==
    SupWithoutDefaults => (last.out.r = "ret" /\ reg = last.pre)

\* the defaults the last set_uninitialized_params() call worked from
Effective == IF ~last.arg.none THEN last.arg.d ELSE defaults.d

\* C5: set_uninitialized_params() with effective defaults D maps every key
\* of D that was absent or None to D[k], keeps the value of every key that
\* was not None, writes no other key and evaluates no constraint.
C5_BackfillOnlyUnset ==
    (last.op = "set_uninitialized_params" /\ ~SupWithoutDefaults) =>
        /\ last.out.r = "ret"
        /\ \A k \in Keys(Effective) :
               IsNone(GetValue(last.pre, k)) =>
                   (Has(reg, k) /\ Lookup(reg, k) = Lookup(Effective, k))
        /\ \A k \in Keys(last.pre) :
               ~IsNone(Lookup(last.pre, k)) =>
                   (Has(reg, k) /\ Lookup(reg, k) = Lookup(last.pre, k))
        /\ \A k \in Keys(reg) \ Keys(Effective) :
               Has(last.pre, k) /\ Lookup(reg, k) = Lookup(last.pre, k)
        /\ last.evaluated = <<>>

\* C5 witness: defaults {x: 10, y: 20} on a register with x = 5 and y unset
\* have given x = 5 and y = 20
C5_Witness ==
    /\ last.op = "set_uninitialized_params"
    /\ Effective = TenTwenty
    /\ last.pre = << <<"x", VInt(5)>> >>
    /\ reg = << <<"x", VInt(5)>>, <<"y", VInt(20)>> >>

\* C8: set() with a true no_check evaluates no constraint, does not raise,
\* and leaves every supplied name mapped to its supplied value.
C8_NoCheckSkipsValidation ==
    (last.op = "set" /\ Truthy(GetValue(last.kwargs, "no_check"))) =>
        /\ last.out.r = "ret"
        /\ last.evaluated = <<>>
        /\ \A i \in DOMAIN last.kwargs :
               Has(reg, last.kwargs[i][1])
               /\ Lookup(reg, last.kwargs[i][1]) = last.kwargs[i][2]

\* C8 witness: set(x=0, no_check=True) has stored 0 under x, which the
\* constraint (">=1",) of x rejects
C8_Witness ==
    /\ last.op = "set" /\ last.out.r = "ret"
    /\ last.kwargs = << <<"x", VInt(0)>>, <<"no_check", VBool(TRUE)>> >>
    /\ Checks("x", VInt(0), FALSE)
    /\ Lookup(reg, "x") = VInt(0)

\* the last call was set() with a no_check keyword
SetWithNoCheck == last.op = "set" /\ Has(last.kwargs, "no_check")

\* the flag passed as no_check
Flag == Lookup(last.kwargs, "no_check")

\* C11: no_check is an ordinary parameter of set(): a call with a no_check
\* keyword that returns leaves "no_check" mapped to the passed flag, so it
\* is an entry of hashable_str; a false flag is itself checked against
\* constraints["no_check"], and the call raises when that check fails;
\* set_uninitialized_params takes a stored flag for a set parameter and
\* keeps it.
C11_NoCheckIsAParameter ==
    /\ (SetWithNoCheck /\ last.out.r = "ret") =>
           /\ Has(reg, "no_check") /\ Lookup(reg, "no_check") = Flag
           /\ Find(<<",">> \o hashable_str(reg) \o <<",">>,
                   <<",">> \o Entry("no_check", Flag) \o <<",">>) # 0
           /\ ~Truthy(Flag) =>
                  /\ \E i \in DOMAIN last.evaluated : last.evaluated[i] = "no_check"
                  /\ Checks("no_check", Flag, TRUE)
    /\ (SetWithNoCheck /\ ~Truthy(Flag) /\ Checks("no_check", Flag, FALSE)) =>
           last.out.r = "raise"
    /\ (SetWithNoCheck /\ last.out.r = "raise" /\ last.site = "set") =>
           (Checks("no_check", Flag, FALSE) <=>
                \E i \in DOMAIN last.msg : last.msg[i][1] = "no_check")
    /\ (/\ last.op = "set_uninitialized_params" /\ last.out.r = "ret"
        /\ Has(last.pre, "no_check") /\ Lookup(last.pre, "no_check").t = "bool") =>
           /\ Has(reg, "no_check")
           /\ Lookup(reg, "no_check") = Lookup(last.pre, "no_check")

\* C11 witness: set(x=5, no_check=False) has checked no_check, returned and
\* stored False under "no_check"
C11_Witness ==
    /\ SetWithNoCheck /\ last.out.r = "ret"
    /\ last.kwargs = << <<"x", VInt(5)>>, <<"no_check", VBool(FALSE)>> >>
    /\ last.evaluated = <<"x", "no_check">>
    /\ reg = last.kwargs
    /\ hashable_str(reg) = <<"x", ":", "5", ",", "n", "o", "_", "c", "h", "e", "c", "k",
                             ":", "F", "a", "l", "s", "e">>

====
